---- MODULE Spec2Model ----
(***************************************************************************)
(* Grade manager (Pengelola Nilai): the students table of the embedded     *)
(* database, the Add screen (explore.tsx), the list screen and its edit    *)
(* modal (index.tsx).  Every handler is split at its awaits: one action    *)
(* per database statement together with the synchronous code that follows  *)
(* it, so handlers started by different presses interleave as they do on   *)
(* the JavaScript event loop.  A press and the first statement its handler *)
(* awaits are one step.  Every action that runs a statement takes a        *)
(* parameter throws: the statement fails with a storage error (TRUE) or is *)
(* answered (FALSE); a write that the unique index rejects fails in the    *)
(* same catch block without throws.  The table and its unique index exist: *)
(* the CREATE statements of the mount effects have succeeded.              *)
(*                                                                         *)
(* Text is a sequence of one-character strings, so that trim(),            *)
(* toLowerCase(), parseFloat() and toString() are computed, not assumed.   *)
(*                                                                         *)
(* Spec starts from an empty table and drives the Add screen, the list's   *)
(* pencil and bin and the edit modal.  ViewSpec starts from a table of     *)
(* seven students and drives the search box, the filter menus, the         *)
(* pagination controls and the bin.                                        *)
(* PagingSpec starts from a table of eleven students, three pages of five, *)
(* and drives the course menu, the pagination controls and the bin.        *)
(* GradeSpec drives the three score fields of the Add screen with the      *)
(* preview of final score and grade, and grades scores written with two    *)
(* decimals.  ThemeSpec drives the theme provider: the mount effect that   *)
(* reads table settings, the theme button and restarts of the app.         *)
(* AppSpec drives the handlers of Spec together with the theme button, so  *)
(* that writes to the two tables interleave.                               *)
(***************************************************************************)
EXTENDS Integers, Sequences, FiniteSets, Bags, TLC

VARIABLES
    mahasiswa,        \* rows of table mahasiswa (set of Student records)
    seq,              \* sqlite_sequence of mahasiswa: largest id ever assigned
    tasks,            \* bag of handler continuations waiting on a database call
    students,         \* StudentsScreen state: loaded rows
    courseOptions,    \* StudentsScreen state: distinct courses, sorted
    editingStudent,   \* StudentsScreen state: row handed to the modal, or NoStudent
    editModalVisible, \* StudentsScreen state
    searchQuery,      \* StudentsScreen state
    gradeFilter,      \* StudentsScreen state
    courseFilter,     \* StudentsScreen state
    itemsPerPage,     \* StudentsScreen state
    currentPage,      \* StudentsScreen state
    nimError,         \* AddStudentScreen state: inline NIM error
    editNimError,     \* EditStudentModal state: inline NIM error
    alert,            \* title or message of the Alert.alert the last step raised, or NoMsg
    started,          \* handlers that reached the database since the app was installed
    scoreFields,      \* AddStudentScreen state: texts of tb1, tb2 and uas, or the
                      \* empty tuple when a score is graded that no form produced
    finalScore,       \* AddStudentScreen preview: the final score
    finalGrade,       \* AddStudentScreen preview: the grade, or NoGrade
    settings,         \* rows of table settings (set of rows with id and theme)
    theme,            \* ThemeProvider state
    systemColor,      \* the device colour scheme useColorScheme returns
    themeTasks        \* bag of ThemeProvider continuations waiting on a database call

vars == <<mahasiswa, seq, tasks, students, courseOptions, editingStudent,
          editModalVisible, searchQuery, gradeFilter, courseFilter,
          itemsPerPage, currentPage, nimError, editNimError, alert, started,
          scoreFields, finalScore, finalGrade, settings, theme, systemColor,
          themeTasks>>

dbVars == <<mahasiswa, seq>>
listVars == <<students, courseOptions>>
modalVars == <<editingStudent, editModalVisible, editNimError>>
viewVars == <<searchQuery, gradeFilter, courseFilter, itemsPerPage, currentPage>>
previewVars == <<scoreFields, finalScore, finalGrade>>
themeVars == <<settings, theme, systemColor, themeTasks>>
studentVars == <<dbVars, tasks, listVars, modalVars, viewVars, nimError, alert>>

-----------------------------------------------------------------------------
(* Bounds of the model *)

MaxStarted == 3     \* at most this many handlers ever reach the database
MaxInflight == 2    \* at most this many handlers wait on the database at once
MaxDeleted == 1     \* at most this many deletions are requested from the filled table

-----------------------------------------------------------------------------
(* Text *)

NoText == <<>>
Space == " "
Digits == {"0", "1", "2", "3", "4", "5", "6", "7", "8", "9"}

DigitVal(c) ==
    CASE c = "0" -> 0 [] c = "1" -> 1 [] c = "2" -> 2 [] c = "3" -> 3
      [] c = "4" -> 4 [] c = "5" -> 5 [] c = "6" -> 6 [] c = "7" -> 7
      [] c = "8" -> 8 [] c = "9" -> 9

DigitChar(d) ==
    CASE d = 0 -> "0" [] d = 1 -> "1" [] d = 2 -> "2" [] d = 3 -> "3"
      [] d = 4 -> "4" [] d = 5 -> "5" [] d = 6 -> "6" [] d = 7 -> "7"
      [] d = 8 -> "8" [] d = 9 -> "9"

\* UTF-16 code unit of the characters the model uses
CharCode(c) ==
    CASE c = Space -> 32
      [] c = "-" -> 45
      [] c \in Digits -> 48 + DigitVal(c)
      [] c = "A" -> 65 [] c = "M" -> 77 [] c = "N" -> 78
      [] c = "a" -> 97 [] c = "b" -> 98 [] c = "m" -> 109 [] c = "n" -> 110
      [] c = "x" -> 120

\* String.prototype.toLowerCase, one character
LowerChar(c) ==
    CASE c = "A" -> "a" [] c = "M" -> "m" [] c = "N" -> "n" [] OTHER -> c

ToLowerCase(s) == [i \in 1..Len(s) |-> LowerChar(s[i])]

RECURSIVE TrimStart(_)
TrimStart(s) ==
    IF s # <<>> /\ Head(s) = Space THEN TrimStart(Tail(s)) ELSE s

RECURSIVE TrimEnd(_)
TrimEnd(s) ==
    IF s # <<>> /\ s[Len(s)] = Space THEN TrimEnd(SubSeq(s, 1, Len(s) - 1)) ELSE s

\* String.prototype.trim
Trim(s) == TrimEnd(TrimStart(s))

\* String.prototype.includes
Includes(s, q) ==
    \E i \in 0..(Len(s) - Len(q)) : SubSeq(s, i + 1, i + Len(q)) = q

\* string comparison of Array.prototype.sort without comparator (code units)
RECURSIVE StrLess(_, _)
StrLess(s, t) ==
    IF t = <<>> THEN FALSE
    ELSE IF s = <<>> THEN TRUE
    ELSE IF CharCode(Head(s)) # CharCode(Head(t))
         THEN CharCode(Head(s)) < CharCode(Head(t))
         ELSE StrLess(Tail(s), Tail(t))

-----------------------------------------------------------------------------
(* Numbers in text *)

\* NaN: the one value of the model's numbers that is no whole number >= 0; it is
\* compared only through isNaN
NaN == 0 - 1

RECURSIVE DigitsValue(_, _)
DigitsValue(s, acc) ==
    IF s = <<>> \/ Head(s) \notin Digits THEN acc
    ELSE DigitsValue(Tail(s), 10 * acc + DigitVal(Head(s)))

\* parseInt(s, 10) on unsigned text: the value of the leading digits
parseInt(s) ==
    IF s = <<>> \/ Head(s) \notin Digits THEN NaN ELSE DigitsValue(s, 0)

\* parseFloat on the text a score field can hold: the fields hold only what
\* handleNumericChange or Number.prototype.toString of a stored whole number
\* produced, so the leading digits are the whole number
parseFloat(s) ==
    IF s = <<>> \/ Head(s) \notin Digits THEN NaN ELSE DigitsValue(s, 0)

isNaN(v) == v = NaN

\* Number.prototype.toString of a whole number >= 0
RECURSIVE NumToString(_)
NumToString(n) ==
    IF n < 10 THEN <<DigitChar(n)>>
    ELSE Append(NumToString(n \div 10), DigitChar(n % 10))

\* /^0+(?=\d)/ replaced by '': leading zeros that a digit follows
RECURSIVE StripLeadingZeros(_)
StripLeadingZeros(s) ==
    IF Len(s) > 1 /\ Head(s) = "0" THEN StripLeadingZeros(Tail(s)) ELSE s

IsDigit(c) == c \in Digits

\* the text a score field holds after the user typed value
handleNumericChange(value) ==
    LET onlyDigits == SelectSeq(value, IsDigit)
        noZeros == StripLeadingZeros(onlyDigits)
        sliced == IF Len(noZeros) > 3 THEN SubSeq(noZeros, 1, 3) ELSE noZeros
        num == parseInt(IF sliced = <<>> THEN <<"0">> ELSE sliced)
    IN  IF num > 100 THEN <<"1", "0", "0">> ELSE sliced

-----------------------------------------------------------------------------
(* Rows, forms and the user's inputs *)

Student(id, nama, nim, matkul, tb1, tb2, uas) ==
    [id |-> id, nama |-> nama, nim |-> nim, matkul |-> matkul,
     tb1 |-> tb1, tb2 |-> tb2, uas |-> uas]

\* null: no student is being edited
NoStudent == Student(0, NoText, NoText, NoText, 0, 0, 0)

\* the six text fields of the Add form and of the edit modal
Form(nama, nim, matkul, tb1, tb2, uas) ==
    [nama |-> nama, nim |-> nim, matkul |-> matkul,
     tb1 |-> tb1, tb2 |-> tb2, uas |-> uas]

NoForm == Form(NoText, NoText, NoText, NoText, NoText, NoText)

\* what the user types into a name, NIM and course field
NameInputs == {<<>>, <<Space>>, <<"a">>, <<"a", Space>>}
NimInputs == {<<>>, <<"1">>, <<"2">>, <<Space, "1">>}
CourseInputs == {<<>>, <<"m">>, <<Space, "m">>}
\* what the user types into the three score fields: empty, non-numeric,
\* the boundary values, negative, leading zeros, above 100, four digits
Tb1Inputs == {<<>>, <<"x">>, <<"0">>, <<"0", "0", "0">>, <<"-", "0">>}
Tb2Inputs == {<<>>, <<"x">>, <<"7">>, <<"0", "7">>, <<"-", "7">>}
UasInputs == {<<>>, <<"x">>, <<"1", "0", "0">>, <<"1", "0", "1">>,
              <<"9", "9", "9">>, <<"1", "0", "0", "0">>}

BaseForm(nim) == Form(<<"a">>, nim, <<"m">>, <<"0">>, <<"7">>, <<"1", "0", "0">>)

\* form f with one score field typed: the field holds what
\* handleNumericChange left of the typed text
ScoreForms(f) ==
    {[f EXCEPT !.tb1 = handleNumericChange(r)] : r \in Tb1Inputs}
    \cup {[f EXCEPT !.tb2 = handleNumericChange(r)] : r \in Tb2Inputs}
    \cup {[f EXCEPT !.uas = handleNumericChange(r)] : r \in UasInputs}

\* the Add form when Save is pressed
AddForms ==
    {[BaseForm(<<"1">>) EXCEPT !.nama = x] : x \in NameInputs}
    \cup {BaseForm(n) : n \in NimInputs}
    \cup {[BaseForm(<<"1">>) EXCEPT !.matkul = x] : x \in CourseInputs}
    \cup ScoreForms(BaseForm(<<"2">>))

\* the studentId argument of handleDeleteStudent
IdOnly(id) == [NoStudent EXCEPT !.id = id]

\* the modal's fields as useState initialises them from the student
StudentForm(s) ==
    Form(s.nama, s.nim, s.matkul,
         NumToString(s.tb1), NumToString(s.tb2), NumToString(s.uas))

\* the modal's form when Perbarui is pressed: the student's values as they
\* are, with the NIM retyped, with name or course cleared, with one score
\* field retyped, or with name, course and all scores retyped
EditForms(s) ==
    {StudentForm(s)}
    \cup {[StudentForm(s) EXCEPT !.nim = x] : x \in NimInputs}
    \cup {[StudentForm(s) EXCEPT !.nama = <<>>], [StudentForm(s) EXCEPT !.matkul = <<>>]}
    \cup ScoreForms(StudentForm(s))
    \cup {[StudentForm(s) EXCEPT !.nama = <<Space>>,
                                 !.matkul = <<"n">>,
                                 !.tb1 = handleNumericChange(<<"1", "0", "0">>),
                                 !.tb2 = handleNumericChange(<<"0">>),
                                 !.uas = handleNumericChange(<<"7">>)]}

-----------------------------------------------------------------------------
(* Messages *)

MsgFieldsRequired == "Semua field harus diisi"
MsgScoreRange == "Nilai harus angka antara 0 dan 100"
MsgSaved == "Data mahasiswa berhasil disimpan"
MsgSaveFailed == "Terjadi kesalahan saat menyimpan data"
MsgConfirmDelete == "Hapus Data Mahasiswa"
MsgNimTaken == "NIM sudah terdaftar"
NoMsg == ""

-----------------------------------------------------------------------------
(* The database: table mahasiswa *)

Ids(rows) == {r.id : r \in rows}

RECURSIVE MaxOf(_)
MaxOf(S) ==
    IF S = {} THEN 0
    ELSE LET x == CHOOSE y \in S : TRUE
             m == MaxOf(S \ {x})
         IN  IF x > m THEN x ELSE m

\* id INTEGER PRIMARY KEY without AUTOINCREMENT: one more than the largest
\* id the table holds now
NextRowid(rows, sequence) == MaxOf(Ids(rows)) + 1

\* id INTEGER PRIMARY KEY AUTOINCREMENT: one more than the largest id the
\* table ever held
NextId(rows, sequence) ==
    (IF MaxOf(Ids(rows)) > sequence THEN MaxOf(Ids(rows)) ELSE sequence) + 1

\* the table without the unique index: every write is let through
NoUniqueIndex(rows, row) == TRUE

\* CREATE UNIQUE INDEX idx_mahasiswa_nim ON mahasiswa (nim): the table with
\* row written to it would hold no second row of the same nim
UniqueIndexOk(rows, row) ==
    \A r \in rows : r.id # row.id => r.nim # row.nim

\* the look-up with the wrong column: WHERE nama = ?
SelectByNama(rows, nim) == {r \in rows : r.nama = nim}

\* SELECT ... FROM mahasiswa WHERE nim = ?
SelectByNim(rows, nim) == {r \in rows : r.nim = nim}

\* the INSERT binding the texts as typed, without trim()
InsertParamsUntrimmed(f) ==
    [id |-> 0, nama |-> f.nama, nim |-> f.nim, matkul |-> f.matkul,
     tb1 |-> parseFloat(f.tb1), tb2 |-> parseFloat(f.tb2), uas |-> parseFloat(f.uas)]

\* the INSERT binding the sum of the three scores where uas belongs
InsertParamsTotal(f) ==
    [id |-> 0, nama |-> Trim(f.nama), nim |-> Trim(f.nim), matkul |-> Trim(f.matkul),
     tb1 |-> parseFloat(f.tb1), tb2 |-> parseFloat(f.tb2),
     uas |-> parseFloat(f.tb1) + parseFloat(f.tb2) + parseFloat(f.uas)]

\* the parameters of the INSERT statement of handleSaveStudent
InsertParams(f) ==
    Student(0, Trim(f.nama), Trim(f.nim), Trim(f.matkul),
            parseFloat(f.tb1), parseFloat(f.tb2), parseFloat(f.uas))

\* the student object EditStudentModal.handleSave hands to onSave
EditedStudent(student, f) ==
    Student(student.id, f.nama, f.nim, f.matkul,
            parseFloat(f.tb1), parseFloat(f.tb2), parseFloat(f.uas))

\* UPDATE mahasiswa SET nama, nim, matkul, tb1, tb2, uas WHERE id = ?
UpdateRows(rows, s) ==
    {IF r.id = s.id
     THEN Student(r.id, s.nama, s.nim, s.matkul, s.tb1, s.tb2, s.uas)
     ELSE r : r \in rows}

\* DELETE FROM mahasiswa WHERE id = ?
DeleteRows(rows, id) == {r \in rows : r.id # id}

\* the query with ORDER BY id ASC
RECURSIVE SelectAllAsc(_)
SelectAllAsc(rows) ==
    IF rows = {} THEN <<>>
    ELSE LET low == CHOOSE r \in rows : \A o \in rows : r.id <= o.id
         IN  <<low>> \o SelectAllAsc(rows \ {low})

\* SELECT * FROM mahasiswa ORDER BY id DESC
RECURSIVE SelectAllDesc(_)
SelectAllDesc(rows) ==
    IF rows = {} THEN <<>>
    ELSE LET top == CHOOSE r \in rows : \A o \in rows : o.id <= r.id
         IN  <<top>> \o SelectAllDesc(rows \ {top})

\* a set of strings sorted from the greatest to the least
RECURSIVE SortStringsDesc(_)
SortStringsDesc(S) ==
    IF S = {} THEN <<>>
    ELSE LET most == CHOOSE s \in S : \A o \in S : o = s \/ StrLess(o, s)
         IN  <<most>> \o SortStringsDesc(S \ {most})

\* Array.prototype.sort of a set of strings
RECURSIVE SortStrings(_)
SortStrings(S) ==
    IF S = {} THEN <<>>
    ELSE LET least == CHOOSE s \in S : \A o \in S : o = s \/ StrLess(s, o)
         IN  <<least>> \o SortStrings(S \ {least})

\* Array.from(new Set(rows.map((s) => s.matkul))).sort()
UniqueCourses(rowSeq) ==
    SortStrings({rowSeq[i].matkul : i \in 1..Len(rowSeq)})

-----------------------------------------------------------------------------
(* Validation shared by handleSaveStudent and EditStudentModal.handleSave *)

\* !nama || !nim || !matkul || !tb1 || !tb2 || !uas is false
FieldsFilled(f) ==
    /\ f.nama # <<>> /\ f.nim # <<>> /\ f.matkul # <<>>
    /\ f.tb1 # <<>> /\ f.tb2 # <<>> /\ f.uas # <<>>

ScoreInRange(t) == ~isNaN(t) /\ ~(t < 0) /\ ~(t > 100)

ScoresValid(f) ==
    /\ ScoreInRange(parseFloat(f.tb1))
    /\ ScoreInRange(parseFloat(f.tb2))
    /\ ScoreInRange(parseFloat(f.uas))

-----------------------------------------------------------------------------
(* Grading.  A score is an IEEE-754 double.  The model holds a double v    *)
(* exactly as the pair (t, d) with v = t/10 + d * 2^-54 / 10: t is the     *)
(* value in tenths that real arithmetic gives and d the rounding error.    *)
(* The literal 0.3 is the double 0.3 - 2 * 2^-54/10 and the literal 0.4    *)
(* the double 0.4 + 4 * 2^-54/10.  A score written with two decimals, such *)
(* as 79.99, has a hundredths digit c besides: it is the double nearest to *)
(* t/10 + c/100, whose rounding error is far below one hundredth and so    *)
(* decides no comparison with a whole number; the arithmetic of            *)
(* calculateFinalScore only meets doubles with c = 0.                      *)

Dbl(t, d) == [t |-> t, c |-> 0, d |-> d]

\* the score literal with two decimals that reads h hundredths
DblLiteral(h) ==
    IF h % 10 = 0 THEN Dbl(h \div 10, 0)
    ELSE [t |-> h \div 10, c |-> h % 10, d |-> 0]

Pow2(n) ==
    CASE n = 0 -> 1 [] n = 1 -> 2 [] n = 2 -> 4 [] n = 3 -> 8 [] n = 4 -> 16
      [] n = 5 -> 32 [] n = 6 -> 64 [] n = 7 -> 128 [] n = 8 -> 256 [] n = 9 -> 512

\* binary exponent of the real number t/10 + d (d tiny), t >= 3
BinExp(t, d) ==
    LET e == CASE t < 5 -> -2 [] t < 10 -> -1 [] t < 20 -> 0 [] t < 40 -> 1
               [] t < 80 -> 2 [] t < 160 -> 3 [] t < 320 -> 4 [] t < 640 -> 5
               [] t < 1280 -> 6 [] OTHER -> 7
    IN  IF t \in {5, 10, 20, 40, 80, 160, 320, 640, 1280} /\ d < 0 THEN e - 1 ELSE e

\* round to nearest, ties to even: the double nearest to t/10 + d
RoundDbl(t, d) ==
    IF t = 0 THEN Dbl(0, 0)
    ELSE
    LET e == BinExp(t, d)
        k4 == (52 - e) % 4
        p10 == CASE k4 = 1 -> 2 [] k4 = 2 -> 4 [] k4 = 3 -> 8 [] k4 = 0 -> 6
        p20 == CASE k4 = 2 -> 4 [] k4 = 3 -> 8 [] k4 = 0 -> 16 [] k4 = 1 -> 12
        r == ((t % 10) * p10) % 10
        n20 == ((t % 20) * p20) % 20
        qpar == ((n20 - r) \div 10) % 2
        unit == Pow2(e + 2)
        g == 10 * unit
        f == unit * r + d
        fl == f \div g
        rem == f - fl * g
        k == IF 2 * rem < g THEN fl
             ELSE IF 2 * rem > g THEN fl + 1
             ELSE IF (qpar + fl) % 2 = 0 THEN fl ELSE fl + 1
    IN  Dbl(t, k * g - unit * r)

\* n * 0.3 and n * 0.4 for a whole number n, and x + y
Times03(n) == RoundDbl(3 * n, -2 * n)
Times04(n) == RoundDbl(4 * n, 4 * n)
DblAdd(x, y) == RoundDbl(x.t + y.t, x.d + y.d)

\* x >= n for a whole number n
DblGeq(x, n) == x.t > 10 * n \/ (x.t = 10 * n /\ (x.c > 0 \/ x.d >= 0))

calculateFinalScore(tb1, tb2, uas) ==
    DblAdd(DblAdd(Times03(tb1), Times03(tb2)), Times04(uas))

\* x > n for a whole number n
DblGt(x, n) == x.t > 10 * n \/ (x.t = 10 * n /\ (x.c > 0 \/ x.d > 0))

\* the bands with each threshold in the lower band
scoreToGradeExclusive(score) ==
    IF DblGt(score, 80) THEN "A"
    ELSE IF DblGt(score, 75) THEN "B+"
    ELSE IF DblGt(score, 69) THEN "B"
    ELSE IF DblGt(score, 65) THEN "C+"
    ELSE IF DblGt(score, 56) THEN "C"
    ELSE "D"

\* the bands without B: B+ is followed by C+
scoreToGradeWithoutB(score) ==
    IF DblGeq(score, 80) THEN "A"
    ELSE IF DblGeq(score, 75) THEN "B+"
    ELSE IF DblGeq(score, 65) THEN "C+"
    ELSE IF DblGeq(score, 56) THEN "C"
    ELSE "D"

scoreToGrade(score) ==
    IF DblGeq(score, 80) THEN "A"
    ELSE IF DblGeq(score, 75) THEN "B+"
    ELSE IF DblGeq(score, 69) THEN "B"
    ELSE IF DblGeq(score, 65) THEN "C+"
    ELSE IF DblGeq(score, 56) THEN "C"
    ELSE "D"

\* tb1 * 0.3 + (tb2 * 0.3 + uas * 0.4): the sum taken from the right
calculateFinalScoreFromRight(tb1, tb2, uas) ==
    DblAdd(Times03(tb1), DblAdd(Times03(tb2), Times04(uas)))

\* the copies of the two grading helpers in the Add screen's file
calculateFinalScoreAdd(tb1, tb2, uas) ==
    DblAdd(DblAdd(Times03(tb1), Times03(tb2)), Times04(uas))

scoreToGradeAdd(score) ==
    IF DblGeq(score, 80) THEN "A"
    ELSE IF DblGeq(score, 75) THEN "B+"
    ELSE IF DblGeq(score, 69) THEN "B"
    ELSE IF DblGeq(score, 65) THEN "C+"
    ELSE IF DblGeq(score, 56) THEN "C"
    ELSE "D"

\* no grade has been computed
NoGrade == ""
\* parseFloat(text) || 0
NumberOrZero(text) ==
    LET v == parseFloat(text) IN IF isNaN(v) THEN 0 ELSE v
\* the finalScore and finalGrade memos of the Add screen
PreviewScore(fields) ==
    calculateFinalScoreAdd(NumberOrZero(fields[1]), NumberOrZero(fields[2]),
                           NumberOrZero(fields[3]))
PreviewGrade(fields) == scoreToGradeAdd(PreviewScore(fields))

-----------------------------------------------------------------------------
(* The theme (the theme context module and app/_layout.tsx) *)

\* useColorScheme() has no answer
NoScheme == "null"
ColorSchemes == {"light", "dark", NoScheme}

\* the row of table settings: id INTEGER PRIMARY KEY CHECK (id = 1)
SettingsRow(value) == [id |-> 1, theme |-> value]

\* SELECT theme FROM settings WHERE id = 1
SelectTheme(rows) == {r \in rows : r.id = 1}

\* an INSERT that adds a row with the next id
AppendTheme(rows, value) ==
    rows \cup {[id |-> Cardinality(rows) + 1, theme |-> value]}

\* INSERT OR REPLACE INTO settings (id, theme) VALUES (1, ?)
ReplaceTheme(rows, value) == {r \in rows : r.id # 1} \cup {SettingsRow(value)}

\* theme === 'light' ? 'dark' : 'light'
OtherTheme(value) == IF value = "light" THEN "dark" ELSE "light"

\* AppThemeConsumer: theme ?? (systemColor ?? 'light'); theme is a string
\* in every state, so the right-hand side is never taken
finalTheme ==
    IF theme \in {"light", "dark"} THEN theme
    ELSE IF systemColor # NoScheme THEN systemColor ELSE "light"

-----------------------------------------------------------------------------
(* The list screen's derived values *)

AllGrades == "Semua Grade"
AllCourses ==
    <<"S", "e", "m", "u", "a", " ", "P", "r", "o", "g", "r", "a", "m", " ",
      "S", "t", "u", "d", "i">>
gradeOptions == <<AllGrades, "A", "B+", "B", "C+", "C", "D">>
itemsPerPageOptions == <<5, 10, 20>>

\* the predicate with the search text used as typed: neither trimmed nor
\* lower-cased
MatchesFiltersAsTyped(s, search, grade, course) ==
    LET matchesSearch ==
            \/ Len(search) = 0
            \/ Includes(ToLowerCase(s.nama), search)
            \/ Includes(ToLowerCase(s.nim), search)
            \/ Includes(ToLowerCase(s.matkul), search)
        score == calculateFinalScore(s.tb1, s.tb2, s.uas)
        matchesGrade == grade = AllGrades \/ grade = scoreToGrade(score)
        matchesCourse == course = AllCourses \/ course = s.matkul
    IN  matchesSearch /\ matchesGrade /\ matchesCourse

\* the predicate of students.filter in filteredStudents
MatchesFilters(s, search, grade, course) ==
    LET query == ToLowerCase(Trim(search))
        matchesSearch ==
            \/ Len(query) = 0
            \/ Includes(ToLowerCase(s.nama), query)
            \/ Includes(ToLowerCase(s.nim), query)
            \/ Includes(ToLowerCase(s.matkul), query)
        score == calculateFinalScore(s.tb1, s.tb2, s.uas)
        matchesGrade == grade = AllGrades \/ grade = scoreToGrade(score)
        matchesCourse == course = AllCourses \/ course = s.matkul
    IN  matchesSearch /\ matchesGrade /\ matchesCourse

FilterStudents(rowSeq, search, grade, course) ==
    LET Keep(s) == MatchesFilters(s, search, grade, course)
    IN  SelectSeq(rowSeq, Keep)

filteredStudents == FilterStudents(students, searchQuery, gradeFilter, courseFilter)

\* Math.max(1, Math.floor(totalFiltered / itemsPerPage))
TotalPagesFloor(totalFiltered, perPage) ==
    LET floor == totalFiltered \div perPage
    IN  IF floor > 1 THEN floor ELSE 1

\* Math.max(1, Math.ceil(totalFiltered / itemsPerPage))
TotalPagesOf(totalFiltered, perPage) ==
    LET ceil == (totalFiltered + perPage - 1) \div perPage
    IN  IF ceil > 1 THEN ceil ELSE 1

totalPages == TotalPagesOf(Len(filteredStudents), itemsPerPage)

\* filtered.slice(startIndex, startIndex + itemsPerPage)
PageOf(filtered, page, perPage) ==
    LET startIndex == (page - 1) * perPage
        stop == IF startIndex + perPage < Len(filtered)
                THEN startIndex + perPage ELSE Len(filtered)
    IN  SubSeq(filtered, startIndex + 1, stop)

paginatedStudents == PageOf(filteredStudents, currentPage, itemsPerPage)

courseOptionsWithAll == <<AllCourses>> \o courseOptions

\* the page is left as it is
ClampPageKeep(page, pages) == page

\* the effect that runs after a render in which currentPage > totalPages
ClampPage(page, pages) == IF page > pages THEN pages ELSE page

Range(sq) == {sq[i] : i \in 1..Len(sq)}

-----------------------------------------------------------------------------
(* Handlers *)

\* a handler waiting on a database call, with what its closure holds
Task(kind, form, row) == [kind |-> kind, form |-> form, row |-> row]

Waiting(kind) == {t \in BagToSet(tasks) : t.kind = kind}
Inflight == BagCardinality(tasks)
\* a further handler may reach the database
CanStart == Inflight < MaxInflight /\ started < MaxStarted
One(t) == SetToBag({t})

\* an Alert dialog with buttons is on screen: nothing below it can be pressed
DialogOpen == Waiting("confirm") # {}
\* the Add screen and the list can be pressed
ScreensFree == ~DialogOpen /\ ~editModalVisible

Init ==
    /\ mahasiswa = {}
    /\ seq = 0
    /\ tasks = EmptyBag
    /\ students = <<>>
    /\ courseOptions = <<>>
    /\ editingStudent = NoStudent
    /\ editModalVisible = FALSE
    /\ searchQuery = NoText
    /\ gradeFilter = AllGrades
    /\ courseFilter = AllCourses
    /\ itemsPerPage = 5
    /\ currentPage = 1
    /\ nimError = NoMsg
    /\ editNimError = NoMsg
    /\ alert = NoMsg
    /\ started = 0
    /\ scoreFields = <<NoText, NoText, NoText>>
    /\ finalScore = PreviewScore(scoreFields)
    /\ finalGrade = PreviewGrade(scoreFields)
    /\ settings = {}
    /\ theme = "light"
    /\ systemColor = "light"
    /\ themeTasks = EmptyBag

\* AddStudentScreen.handleSaveStudent up to the answer of its SELECT
AddSave(f, throws) ==
    /\ UNCHANGED <<previewVars, themeVars>>
    /\ ScreensFree
    /\ UNCHANGED <<dbVars, listVars, modalVars, viewVars>>
    /\ IF ~FieldsFilled(f) THEN
            /\ alert' = MsgFieldsRequired
            /\ UNCHANGED <<tasks, nimError, started>>
       ELSE IF ~ScoresValid(f) THEN
            /\ alert' = MsgScoreRange
            /\ UNCHANGED <<tasks, nimError, started>>
       ELSE IF throws THEN
            /\ alert' = MsgSaveFailed
            /\ UNCHANGED <<tasks, nimError, started>>
       ELSE IF SelectByNim(mahasiswa, f.nim) # {} THEN
            /\ nimError' = MsgNimTaken
            /\ alert' = NoMsg
            /\ UNCHANGED <<tasks, started>>
       ELSE
            /\ CanStart
            /\ nimError' = NoMsg
            /\ alert' = NoMsg
            /\ tasks' = tasks (+) One(Task("insert", f, NoStudent))
            /\ started' = started + 1

\* the INSERT of handleSaveStudent and what follows it
RunInsert(t, throws) ==
    /\ UNCHANGED <<previewVars, themeVars>>
    /\ t.kind = "insert"
    /\ tasks' = tasks (-) One(t)
    /\ UNCHANGED <<listVars, modalVars, viewVars, started>>
    /\ LET row == [InsertParams(t.form) EXCEPT !.id = NextId(mahasiswa, seq)]
       IN  IF throws \/ ~UniqueIndexOk(mahasiswa, row) THEN
                /\ alert' = MsgSaveFailed
                /\ UNCHANGED <<dbVars, nimError>>
           ELSE
                /\ mahasiswa' = mahasiswa \cup {row}
                /\ seq' = row.id
                /\ alert' = MsgSaved
                /\ nimError' = NoMsg

\* StudentsScreen.handleEditStudent: the pencil of a listed row
handleEditStudent(student) ==
    /\ UNCHANGED <<previewVars, themeVars>>
    /\ ScreensFree
    /\ student \in Range(paginatedStudents)
    /\ editingStudent' = student
    /\ editModalVisible' = TRUE
    /\ editNimError' = NoMsg
    /\ alert' = NoMsg
    /\ UNCHANGED <<dbVars, tasks, listVars, viewVars, nimError, started>>

\* the modal's onDismiss (Batal, the close icon, the back button)
DismissModal ==
    /\ UNCHANGED <<previewVars, themeVars>>
    /\ ~DialogOpen /\ editModalVisible
    /\ editModalVisible' = FALSE
    /\ editingStudent' = NoStudent
    /\ editNimError' = NoMsg
    /\ alert' = NoMsg
    /\ UNCHANGED <<dbVars, tasks, listVars, viewVars, nimError, started>>

\* EditStudentModal.handleSave up to onSave, and handleSaveEditedStudent up
\* to its UPDATE being issued
EditSave(f, throws) ==
    /\ UNCHANGED <<previewVars, themeVars>>
    /\ ~DialogOpen /\ editModalVisible
    /\ UNCHANGED <<dbVars, listVars, editingStudent, editModalVisible, viewVars, nimError>>
    /\ LET student == editingStudent
           edited == EditedStudent(student, f)
       IN
       IF ~FieldsFilled(f) THEN
            /\ alert' = MsgFieldsRequired
            /\ UNCHANGED <<tasks, editNimError, started>>
       ELSE IF ~ScoresValid(f) THEN
            /\ alert' = MsgScoreRange
            /\ UNCHANGED <<tasks, editNimError, started>>
       ELSE IF f.nim # student.nim /\ throws THEN
            /\ alert' = NoMsg
            /\ UNCHANGED <<tasks, editNimError, started>>
       ELSE IF f.nim # student.nim /\ SelectByNim(mahasiswa, f.nim) # {} THEN
            /\ editNimError' = MsgNimTaken
            /\ alert' = NoMsg
            /\ UNCHANGED <<tasks, started>>
       ELSE
            /\ ~throws
            /\ CanStart
            /\ editNimError' = NoMsg
            /\ alert' = NoMsg
            /\ tasks' = tasks (+) One(Task("update", NoForm, edited))
            /\ started' = started + 1

\* the UPDATE of handleSaveEditedStudent; loadStudents is called next
RunUpdate(t, throws) ==
    /\ UNCHANGED <<previewVars, themeVars>>
    /\ t.kind = "update"
    /\ UNCHANGED <<listVars, modalVars, viewVars, nimError, seq, started>>
    /\ alert' = NoMsg
    /\ IF throws \/ (t.row.id \in Ids(mahasiswa) /\ ~UniqueIndexOk(mahasiswa, t.row)) THEN
            /\ tasks' = tasks (-) One(t)
            /\ UNCHANGED mahasiswa
       ELSE
            /\ mahasiswa' = UpdateRows(mahasiswa, t.row)
            /\ tasks' = (tasks (-) One(t)) (+) One(Task("editLoad", NoForm, NoStudent))

\* StudentsScreen.handleDeleteStudent: the bin of a listed row opens the dialog
handleDeleteStudent(student) ==
    /\ UNCHANGED <<previewVars, themeVars>>
    /\ ScreensFree
    /\ CanStart
    /\ student \in Range(paginatedStudents)
    /\ tasks' = tasks (+) One(Task("confirm", NoForm, IdOnly(student.id)))
    /\ started' = started + 1
    /\ alert' = MsgConfirmDelete
    /\ UNCHANGED <<dbVars, listVars, modalVars, viewVars, nimError>>

\* Batal in the dialog
CancelDelete(t) ==
    /\ UNCHANGED <<previewVars, themeVars>>
    /\ t.kind = "confirm"
    /\ tasks' = tasks (-) One(t)
    /\ alert' = NoMsg
    /\ UNCHANGED <<dbVars, listVars, modalVars, viewVars, nimError, started>>

\* Hapus in the dialog: onPress issues the DELETE
ConfirmDelete(t) ==
    /\ UNCHANGED <<previewVars, themeVars>>
    /\ t.kind = "confirm"
    /\ tasks' = (tasks (-) One(t)) (+) One(Task("delete", NoForm, t.row))
    /\ alert' = NoMsg
    /\ UNCHANGED <<dbVars, listVars, modalVars, viewVars, nimError, started>>

\* the DELETE of the dialog's onPress; loadStudents is called next
RunDelete(t, throws) ==
    /\ UNCHANGED <<previewVars, themeVars>>
    /\ t.kind = "delete"
    /\ UNCHANGED <<listVars, modalVars, viewVars, nimError, seq, started>>
    /\ alert' = NoMsg
    /\ IF throws THEN
            /\ tasks' = tasks (-) One(t)
            /\ UNCHANGED mahasiswa
       ELSE
            /\ mahasiswa' = DeleteRows(mahasiswa, t.row.id)
            /\ tasks' = (tasks (-) One(t)) (+) One(Task("load", NoForm, NoStudent))

\* StudentsScreen.loadStudents, called on mount, after a DELETE and after
\* an UPDATE; after an UPDATE the modal is closed next
RunLoad(t, throws) ==
    /\ UNCHANGED <<previewVars, themeVars>>
    /\ t.kind \in {"load", "editLoad"}
    /\ tasks' = tasks (-) One(t)
    /\ alert' = NoMsg
    /\ UNCHANGED <<dbVars, nimError, searchQuery, gradeFilter, courseFilter, itemsPerPage, started>>
    /\ IF throws THEN UNCHANGED listVars
       ELSE /\ students' = SelectAllDesc(mahasiswa)
            /\ courseOptions' = UniqueCourses(students')
    /\ currentPage' =
           ClampPage(currentPage,
                     TotalPagesOf(Len(FilterStudents(students', searchQuery,
                                                     gradeFilter, courseFilter)),
                                  itemsPerPage))
    /\ IF t.kind = "editLoad"
       THEN /\ editModalVisible' = FALSE
            /\ editingStudent' = NoStudent
            /\ editNimError' = NoMsg
       ELSE UNCHANGED modalVars

\* the app is closed and opened again: the database file stays, every
\* component starts from its initial state, and the list screen's mount
\* effect (prepareDatabase, then loadStudents) has run
Launch(throws) ==
    /\ UNCHANGED <<previewVars, themeVars>>
    /\ tasks' = EmptyBag
    /\ editingStudent' = NoStudent
    /\ editModalVisible' = FALSE
    /\ searchQuery' = NoText
    /\ gradeFilter' = AllGrades
    /\ courseFilter' = AllCourses
    /\ itemsPerPage' = 5
    /\ currentPage' = 1
    /\ nimError' = NoMsg
    /\ editNimError' = NoMsg
    /\ alert' = NoMsg
    /\ UNCHANGED <<dbVars, started>>
    /\ IF throws THEN students' = <<>> /\ courseOptions' = <<>>
       ELSE /\ students' = SelectAllDesc(mahasiswa)
            /\ courseOptions' = UniqueCourses(students')

Next ==
    \/ \E throws \in BOOLEAN : Launch(throws)
    \/ \E f \in AddForms, throws \in BOOLEAN : AddSave(f, throws)
    \/ \E t \in BagToSet(tasks), throws \in BOOLEAN : RunInsert(t, throws)
    \/ \E i \in 1..Len(students) : handleEditStudent(students[i])
    \/ DismissModal
    \/ \E f \in EditForms(editingStudent), throws \in BOOLEAN : EditSave(f, throws)
    \/ \E t \in BagToSet(tasks), throws \in BOOLEAN : RunUpdate(t, throws)
    \/ \E i \in 1..Len(students) : handleDeleteStudent(students[i])
    \/ \E t \in BagToSet(tasks) : CancelDelete(t)
    \/ \E t \in BagToSet(tasks) : ConfirmDelete(t)
    \/ \E t \in BagToSet(tasks), throws \in BOOLEAN : RunDelete(t, throws)
    \/ \E t \in BagToSet(tasks), throws \in BOOLEAN : RunLoad(t, throws)

Spec == Init /\ [][Next]_vars

-----------------------------------------------------------------------------
(* The list screen's search box, filter menus and pagination controls *)

\* what the user types into the search box
SearchInputs == {<<"a">>, <<"A", Space>>}

\* the grade literal of the 'all' entry the menu sets
GradeLiteralInUse == "Semua Grade"

\* the literals the clear-filters condition compares the filters with
AllGradesLiteral == "All Grades"
AllCoursesLiteral == <<"A", "l", "l", " ", "C", "o", "u", "r", "s", "e", "s">>

\* onChangeText of the search box
TypeSearch(text) ==
    /\ UNCHANGED <<previewVars, themeVars>>
    /\ ScreensFree
    /\ searchQuery' = text
    /\ currentPage' = 1
    /\ alert' = NoMsg
    /\ UNCHANGED <<dbVars, tasks, listVars, modalVars, gradeFilter, courseFilter,
                   itemsPerPage, nimError, started>>

\* the close icon of the search box, rendered while the box holds text
ClearSearch ==
    /\ UNCHANGED <<previewVars, themeVars>>
    /\ ScreensFree
    /\ Len(searchQuery) > 0
    /\ searchQuery' = NoText
    /\ alert' = NoMsg
    /\ UNCHANGED <<dbVars, tasks, listVars, modalVars, gradeFilter, courseFilter,
                   itemsPerPage, currentPage, nimError, started>>

\* an item of the grade menu
SelectGrade(grade) ==
    /\ UNCHANGED <<previewVars, themeVars>>
    /\ ScreensFree
    /\ grade \in Range(gradeOptions)
    /\ gradeFilter' = grade
    /\ currentPage' = 1
    /\ alert' = NoMsg
    /\ UNCHANGED <<dbVars, tasks, listVars, modalVars, searchQuery, courseFilter,
                   itemsPerPage, nimError, started>>

\* an item of the course menu
SelectCourse(course) ==
    /\ UNCHANGED <<previewVars, themeVars>>
    /\ ScreensFree
    /\ course \in Range(courseOptionsWithAll)
    /\ courseFilter' = course
    /\ currentPage' = 1
    /\ alert' = NoMsg
    /\ UNCHANGED <<dbVars, tasks, listVars, modalVars, searchQuery, gradeFilter,
                   itemsPerPage, nimError, started>>

\* the Reset control, rendered while its condition holds
ResetFilters ==
    /\ UNCHANGED <<previewVars, themeVars>>
    /\ ScreensFree
    /\ gradeFilter # AllGradesLiteral \/ courseFilter # AllCoursesLiteral
    /\ gradeFilter' = AllGrades
    /\ courseFilter' = AllCourses
    /\ alert' = NoMsg
    /\ UNCHANGED <<dbVars, tasks, listVars, modalVars, searchQuery, itemsPerPage,
                   currentPage, nimError, started>>

\* an item of the items-per-page menu
SelectItemsPerPage(opt) ==
    /\ UNCHANGED <<previewVars, themeVars>>
    /\ ScreensFree
    /\ opt \in Range(itemsPerPageOptions)
    /\ itemsPerPage' = opt
    /\ currentPage' = 1
    /\ alert' = NoMsg
    /\ UNCHANGED <<dbVars, tasks, listVars, modalVars, searchQuery, gradeFilter,
                   courseFilter, nimError, started>>

\* chevron-left, disabled on page 1
PrevPage ==
    /\ UNCHANGED <<previewVars, themeVars>>
    /\ ScreensFree
    /\ ~(currentPage = 1)
    /\ currentPage' = (IF currentPage - 1 > 1 THEN currentPage - 1 ELSE 1)
    /\ alert' = NoMsg
    /\ UNCHANGED <<dbVars, tasks, listVars, modalVars, searchQuery, gradeFilter,
                   courseFilter, itemsPerPage, nimError, started>>

\* chevron-right, disabled on the last page
NextPage ==
    /\ UNCHANGED <<previewVars, themeVars>>
    /\ ScreensFree
    /\ ~(currentPage >= totalPages)
    /\ currentPage' = (IF currentPage + 1 < totalPages THEN currentPage + 1 ELSE totalPages)
    /\ alert' = NoMsg
    /\ UNCHANGED <<dbVars, tasks, listVars, modalVars, searchQuery, gradeFilter,
                   courseFilter, itemsPerPage, nimError, started>>

\* a table that earlier runs of the app filled: nine students were added and
\* the students with id 3 and 8 deleted
PersistedRows ==
    {Student(1, <<"a">>, <<"1">>, <<"m">>, 0, 7, 100),
     Student(2, <<"b">>, <<"2">>, <<"n">>, 100, 100, 100),
     Student(4, <<"A">>, <<"4">>, <<"m">>, 80, 70, 80),
     Student(5, <<"a", "b">>, <<"5">>, <<"n">>, 70, 70, 70),
     Student(6, <<"b", "a">>, <<"6">>, <<"m">>, 65, 65, 65),
     Student(7, <<"a">>, <<"7">>, <<"m">>, 56, 56, 56),
     Student(9, <<"a">>, <<"9">>, <<"n">>, 53, 99, 26)}

\* the app is opened on that table: the list screen is mounted and its
\* mount effect waits for loadStudents
ViewInit ==
    /\ mahasiswa = PersistedRows
    /\ seq = 9
    /\ tasks = One(Task("load", NoForm, NoStudent))
    /\ students = <<>>
    /\ courseOptions = <<>>
    /\ editingStudent = NoStudent
    /\ editModalVisible = FALSE
    /\ searchQuery = NoText
    /\ gradeFilter = AllGrades
    /\ courseFilter = AllCourses
    /\ itemsPerPage = 5
    /\ currentPage = 1
    /\ nimError = NoMsg
    /\ editNimError = NoMsg
    /\ alert = NoMsg
    /\ started = 0
    /\ scoreFields = <<NoText, NoText, NoText>>
    /\ finalScore = PreviewScore(scoreFields)
    /\ finalGrade = PreviewGrade(scoreFields)
    /\ settings = {}
    /\ theme = "light"
    /\ systemColor = "light"
    /\ themeTasks = EmptyBag

ViewNext ==
    \/ \E text \in SearchInputs : TypeSearch(text)
    \/ ClearSearch
    \/ \E i \in 1..Len(gradeOptions) : SelectGrade(gradeOptions[i])
    \/ \E i \in 1..Len(courseOptionsWithAll) : SelectCourse(courseOptionsWithAll[i])
    \/ ResetFilters
    \/ \E i \in 1..Len(itemsPerPageOptions) : SelectItemsPerPage(itemsPerPageOptions[i])
    \/ PrevPage
    \/ NextPage
    \/ \E i \in 1..Len(students) :
           started < MaxDeleted /\ handleDeleteStudent(students[i])
    \/ \E t \in BagToSet(tasks) : CancelDelete(t)
    \/ \E t \in BagToSet(tasks) : ConfirmDelete(t)
    \/ \E t \in BagToSet(tasks), throws \in BOOLEAN : RunDelete(t, throws)
    \/ \E t \in BagToSet(tasks), throws \in BOOLEAN : RunLoad(t, throws)

ViewSpec == ViewInit /\ [][ViewNext]_vars

(***************************************************************************)
(* The pagination bar on a table that fills three pages of five            *)

\* a table that earlier runs of the app filled: thirteen students were added
\* and the students with id 3 and 8 deleted; six attend course m, four
\* course n and one course b
PagedRows ==
    {Student(1, <<"a">>, <<"1">>, <<"m">>, 0, 7, 100),
     Student(2, <<"b">>, <<"2">>, <<"n">>, 100, 100, 100),
     Student(4, <<"A">>, <<"4">>, <<"m">>, 80, 70, 80),
     Student(5, <<"a", "b">>, <<"5">>, <<"n">>, 70, 70, 70),
     Student(6, <<"b", "a">>, <<"6">>, <<"m">>, 65, 65, 65),
     Student(7, <<"a">>, <<"7">>, <<"m">>, 56, 56, 56),
     Student(9, <<"a">>, <<"9">>, <<"n">>, 53, 99, 26),
     Student(10, <<"b">>, <<"1", "0">>, <<"m">>, 80, 80, 80),
     Student(11, <<"b", "b">>, <<"1", "1">>, <<"b">>, 75, 75, 75),
     Student(12, <<"b">>, <<"1", "2">>, <<"m">>, 69, 69, 69),
     Student(13, <<"b">>, <<"1", "3">>, <<"n">>, 100, 0, 7)}

\* the app is opened on that table: the mount effect's load is in flight
PagingInit ==
    /\ mahasiswa = PagedRows
    /\ seq = 13
    /\ tasks = One(Task("load", NoForm, NoStudent))
    /\ students = <<>>
    /\ courseOptions = <<>>
    /\ editingStudent = NoStudent
    /\ editModalVisible = FALSE
    /\ searchQuery = NoText
    /\ gradeFilter = AllGrades
    /\ courseFilter = AllCourses
    /\ itemsPerPage = 5
    /\ currentPage = 1
    /\ nimError = NoMsg
    /\ editNimError = NoMsg
    /\ alert = NoMsg
    /\ started = 0
    /\ scoreFields = <<NoText, NoText, NoText>>
    /\ finalScore = PreviewScore(scoreFields)
    /\ finalGrade = PreviewGrade(scoreFields)
    /\ settings = {}
    /\ theme = "light"
    /\ systemColor = "light"
    /\ themeTasks = EmptyBag

\* the course menu, the Reset control, the pagination bar and the bin of the
\* visible cards
PagingNext ==
    \/ \E i \in 1..Len(courseOptionsWithAll) : SelectCourse(courseOptionsWithAll[i])
    \/ \E i \in 1..Len(itemsPerPageOptions) : SelectItemsPerPage(itemsPerPageOptions[i])
    \/ ResetFilters
    \/ PrevPage
    \/ NextPage
    \/ \E i \in 1..Len(students) :
           started < MaxDeleted /\ handleDeleteStudent(students[i])
    \/ \E t \in BagToSet(tasks) : CancelDelete(t)
    \/ \E t \in BagToSet(tasks) : ConfirmDelete(t)
    \/ \E t \in BagToSet(tasks), throws \in BOOLEAN : RunDelete(t, throws)
    \/ \E t \in BagToSet(tasks), throws \in BOOLEAN : RunLoad(t, throws)

PagingSpec == PagingInit /\ [][PagingNext]_vars

(***************************************************************************)
(* The grading functions: the score fields of the Add screen with the      *)
(* preview of final score and grade, and scoreToGrade on scores written    *)
(* with two decimals                                                       *)

\* texts typed into a score field
ScoreTyped ==
    {<<>>, <<"0">>, <<"2", "6">>, <<"5", "3">>, <<"5", "6">>, <<"6", "5">>,
     <<"6", "9">>, <<"7", "5">>, <<"8", "0">>, <<"9", "9">>, <<"1", "0", "0">>}

\* scores in hundredths handed to scoreToGrade as they are
ScoreLiterals ==
    {0, 5599, 5600, 6499, 6500, 6899, 6900, 7499, 7500, 7999, 8000, 10000}

\* onChangeText of the field TB1 (1), TB2 (2) or UAS (3); the memos
\* finalScore and finalGrade follow the fields
ChangeScore(i, value) ==
    /\ Len(scoreFields) = 3
    /\ scoreFields' = [scoreFields EXCEPT ![i] = handleNumericChange(value)]
    /\ finalScore' = PreviewScore(scoreFields')
    /\ finalGrade' = PreviewGrade(scoreFields')
    /\ UNCHANGED <<studentVars, started, themeVars>>

\* scoreToGrade(score) for a score that is given
GradeLiteral ==
    /\ scoreFields = <<>>
    /\ finalGrade = NoGrade
    /\ finalGrade' = scoreToGrade(finalScore)
    /\ UNCHANGED <<studentVars, started, scoreFields, finalScore, themeVars>>

\* the Add screen with its three score fields empty, or a score that is
\* about to be graded
GradeInit ==
    /\ mahasiswa = {}
    /\ seq = 0
    /\ tasks = EmptyBag
    /\ students = <<>>
    /\ courseOptions = <<>>
    /\ editingStudent = NoStudent
    /\ editModalVisible = FALSE
    /\ searchQuery = NoText
    /\ gradeFilter = AllGrades
    /\ courseFilter = AllCourses
    /\ itemsPerPage = 5
    /\ currentPage = 1
    /\ nimError = NoMsg
    /\ editNimError = NoMsg
    /\ alert = NoMsg
    /\ started = 0
    /\ settings = {}
    /\ theme = "light"
    /\ systemColor = "light"
    /\ themeTasks = EmptyBag
    /\ \/ /\ scoreFields = <<NoText, NoText, NoText>>
          /\ finalScore = PreviewScore(scoreFields)
          /\ finalGrade = PreviewGrade(scoreFields)
       \/ \E h \in ScoreLiterals :
              /\ scoreFields = <<>>
              /\ finalScore = DblLiteral(h)
              /\ finalGrade = NoGrade

GradeNext ==
    \/ \E i \in 1..3, value \in ScoreTyped : ChangeScore(i, value)
    \/ GradeLiteral

GradeSpec == GradeInit /\ [][GradeNext]_vars

(***************************************************************************)
(* The theme provider: its mount effect and toggleTheme                    *)

ThemeTask(kind, value) == [kind |-> kind, theme |-> value]

\* CREATE TABLE IF NOT EXISTS settings of the mount effect
RunCreateSettings(t, throws) ==
    /\ t.kind = "create"
    /\ themeTasks' =
           IF throws THEN themeTasks (-) One(t)
           ELSE (themeTasks (-) One(t)) (+) One(ThemeTask("read", t.theme))
    /\ UNCHANGED <<studentVars, started, previewVars, settings, theme, systemColor>>

\* the SELECT of the mount effect and the setTheme that follows it
RunReadTheme(t, throws) ==
    /\ t.kind = "read"
    /\ themeTasks' = themeTasks (-) One(t)
    /\ theme' =
           IF ~throws /\ \E r \in SelectTheme(settings) : r.theme \in {"dark", "light"}
           THEN (CHOOSE r \in SelectTheme(settings) : TRUE).theme
           ELSE theme
    /\ UNCHANGED <<studentVars, started, previewVars, settings, systemColor>>

\* the theme button of either screen: toggleTheme up to its INSERT OR REPLACE
toggleTheme ==
    /\ started < MaxStarted
    /\ BagCardinality(themeTasks) < MaxInflight
    /\ started' = started + 1
    /\ theme' = OtherTheme(theme)
    /\ themeTasks' = themeTasks (+) One(ThemeTask("write", OtherTheme(theme)))
    /\ UNCHANGED <<studentVars, previewVars, settings, systemColor>>

\* an INSERT OR REPLACE that stores the row although it reports an error
RunWriteThemeAnyway(t, throws) ==
    /\ t.kind = "write"
    /\ themeTasks' = themeTasks (-) One(t)
    /\ settings' = ReplaceTheme(settings, t.theme)
    /\ UNCHANGED <<studentVars, started, previewVars, theme, systemColor>>

\* the INSERT OR REPLACE of toggleTheme
RunWriteTheme(t, throws) ==
    /\ t.kind = "write"
    /\ themeTasks' = themeTasks (-) One(t)
    /\ settings' = IF throws THEN settings ELSE ReplaceTheme(settings, t.theme)
    /\ UNCHANGED <<studentVars, started, previewVars, theme, systemColor>>

\* the app is closed and opened again while nothing is in flight: the
\* database file stays, the provider starts from 'light' and runs its mount
\* effect; the device colour scheme may have been changed meanwhile
ThemeLaunch(scheme) ==
    /\ themeTasks = EmptyBag
    /\ theme' = "light"
    /\ systemColor' = scheme
    /\ themeTasks' = One(ThemeTask("create", "light"))
    /\ UNCHANGED <<studentVars, started, previewVars, settings>>

\* the app is opened: earlier runs have left no theme, 'light' or 'dark' in
\* table settings, and the mount effect's CREATE TABLE is in flight
ThemeInit ==
    /\ mahasiswa = {}
    /\ seq = 0
    /\ tasks = EmptyBag
    /\ students = <<>>
    /\ courseOptions = <<>>
    /\ editingStudent = NoStudent
    /\ editModalVisible = FALSE
    /\ searchQuery = NoText
    /\ gradeFilter = AllGrades
    /\ courseFilter = AllCourses
    /\ itemsPerPage = 5
    /\ currentPage = 1
    /\ nimError = NoMsg
    /\ editNimError = NoMsg
    /\ alert = NoMsg
    /\ started = 0
    /\ scoreFields = <<NoText, NoText, NoText>>
    /\ finalScore = PreviewScore(scoreFields)
    /\ finalGrade = PreviewGrade(scoreFields)
    /\ settings \in {{}, {SettingsRow("light")}, {SettingsRow("dark")}}
    /\ theme = "light"
    /\ systemColor \in ColorSchemes
    /\ themeTasks = One(ThemeTask("create", "light"))

ThemeNext ==
    \/ \E t \in BagToSet(themeTasks), throws \in BOOLEAN : RunCreateSettings(t, throws)
    \/ \E t \in BagToSet(themeTasks), throws \in BOOLEAN : RunReadTheme(t, throws)
    \/ toggleTheme
    \/ \E t \in BagToSet(themeTasks), throws \in BOOLEAN : RunWriteTheme(t, throws)
    \/ \E scheme \in ColorSchemes : ThemeLaunch(scheme)

ThemeSpec == ThemeInit /\ [][ThemeNext]_vars

(***************************************************************************)
(* The two tables together: the handlers of Spec and the theme button,     *)
(* from an empty students table and an empty settings table after start-up *)

AppNext ==
    \/ \E throws \in BOOLEAN : Launch(throws)
    \/ \E f \in AddForms, throws \in BOOLEAN : AddSave(f, throws)
    \/ \E t \in BagToSet(tasks), throws \in BOOLEAN : RunInsert(t, throws)
    \/ \E i \in 1..Len(students) : handleEditStudent(students[i])
    \/ DismissModal
    \/ \E f \in EditForms(editingStudent), throws \in BOOLEAN : EditSave(f, throws)
    \/ \E t \in BagToSet(tasks), throws \in BOOLEAN : RunUpdate(t, throws)
    \/ \E i \in 1..Len(students) : handleDeleteStudent(students[i])
    \/ \E t \in BagToSet(tasks) : CancelDelete(t)
    \/ \E t \in BagToSet(tasks) : ConfirmDelete(t)
    \/ \E t \in BagToSet(tasks), throws \in BOOLEAN : RunDelete(t, throws)
    \/ \E t \in BagToSet(tasks), throws \in BOOLEAN : RunLoad(t, throws)
    \/ toggleTheme
    \/ \E t \in BagToSet(themeTasks), throws \in BOOLEAN : RunWriteTheme(t, throws)

AppSpec == Init /\ [][AppNext]_vars

-----------------------------------------------------------------------------
(* Properties *)

\* C1: in every reachable state, whatever the interleaving of adds, edits
\* and deletes, no two rows of mahasiswa have the same nim.
C1_UniqueNim ==
    \A r1, r2 \in mahasiswa : r1 # r2 => r1.nim # r2.nim

\* an INSERT is in flight whose nim is held by a stored row: its pre-check
\* passed and the index has to stop it
C1_Witness ==
    \E t \in Waiting("insert") : \E r \in mahasiswa : r.nim = Trim(t.form.nim)

\* the Add forms that pass the presence check and the score check
ValidAddForms == {f \in AddForms : FieldsFilled(f) /\ ScoresValid(f)}

\* C2: a press of Save on the Add screen with all fields valid and a nim
\* that a stored row holds, the SELECT being answered, sets the inline error
\* 'NIM sudah terdaftar', issues no INSERT and leaves the table as it was.
C2_DuplicateAddRejected ==
    [][\A f \in ValidAddForms :
           (/\ \E r \in mahasiswa : r.nim = f.nim
            /\ AddSave(f, FALSE))
           => (/\ nimError' = MsgNimTaken
               /\ tasks' = tasks
               /\ mahasiswa' = mahasiswa)]_vars

\* the Add screen shows the inline NIM error while the row it names is stored
C2_Witness ==
    /\ nimError = MsgNimTaken
    /\ mahasiswa # {}
    /\ tasks = EmptyBag

\* C3: every stored row has tb1, tb2 and uas each a number from 0 to 100,
\* whatever was typed into the score fields of the Add form and the modal.
C3_ScoresInRange ==
    \A r \in mahasiswa :
        /\ r.tb1 \in 0..100
        /\ r.tb2 \in 0..100
        /\ r.uas \in 0..100

\* a row with the boundary scores 0 and 100 has been saved
C3_Witness ==
    /\ alert = MsgSaved
    /\ \E r \in mahasiswa : r.id = seq /\ r.tb1 = 0 /\ r.uas = 100

\* C4: no stored row has an empty nama, an empty nim or an empty matkul.
C4_NoEmptyText ==
    \A r \in mahasiswa : r.nama # NoText /\ r.nim # NoText /\ r.matkul # NoText

\* C5: when the unique index rejects the INSERT of an add or the UPDATE of
\* an edit, the user sees the inline error 'NIM sudah terdaftar' of the
\* screen the write came from.
C5_IndexRejectionIsDuplicateKey ==
    [][\A t \in BagToSet(tasks) :
           /\ (/\ RunInsert(t, FALSE)
               /\ \E r \in mahasiswa : r.nim = Trim(t.form.nim))
              => nimError' = MsgNimTaken
           /\ (/\ RunUpdate(t, FALSE)
               /\ t.row.id \in Ids(mahasiswa)
               /\ \E r \in mahasiswa : r.id # t.row.id /\ r.nim = t.row.nim)
              => editNimError' = MsgNimTaken]_vars

\* C6: a press of Perbarui with valid fields, the database answering: when
\* the typed nim differs from the nim the row has and a row of another id
\* holds it, the inline error is set and nothing is written; otherwise the
\* UPDATE is issued with the typed values, and it overwrites the row of that
\* id with them and leaves every other row as it was.
C6_EditSaveEffect ==
    [][/\ \A f \in EditForms(editingStudent) :
              (EditSave(f, FALSE) /\ FieldsFilled(f) /\ ScoresValid(f))
              => LET id == editingStudent.id
                     differs == \A r \in mahasiswa : r.id = id => r.nim # f.nim
                     taken == \E r \in mahasiswa : r.id # id /\ r.nim = f.nim
                     typed == Student(id, f.nama, f.nim, f.matkul,
                                      parseFloat(f.tb1), parseFloat(f.tb2),
                                      parseFloat(f.uas))
                 IN  IF differs /\ taken
                     THEN /\ editNimError' = MsgNimTaken
                          /\ tasks' = tasks
                          /\ mahasiswa' = mahasiswa
                     ELSE tasks' = tasks (+) One(Task("update", NoForm, typed))
       /\ \A t \in Waiting("update") :
              RunUpdate(t, FALSE)
              => IF \E r \in mahasiswa : r.id # t.row.id /\ r.nim = t.row.nim
                 THEN t.row.id \in Ids(mahasiswa)
                          => editNimError' = MsgNimTaken /\ mahasiswa' = mahasiswa
                 ELSE mahasiswa' = {IF r.id = t.row.id THEN t.row ELSE r : r \in mahasiswa}
      ]_vars

\* C7: a DELETE or an UPDATE for an id that no row has, the database
\* answering, raises a message to the user and leaves the table as it was.
C7_MissingIdReported ==
    [][\A t \in BagToSet(tasks) :
           (/\ RunDelete(t, FALSE) \/ RunUpdate(t, FALSE)
            /\ t.row.id \notin Ids(mahasiswa))
           => (/\ mahasiswa' = mahasiswa
               /\ \/ alert' # NoMsg
                  \/ editNimError' # NoMsg /\ editNimError' # editNimError)]_vars

\* C8: rows have distinct ids; a step keeps the id of every row it keeps (an
\* UPDATE changes no id); and the id of a new row is larger than every id
\* assigned before, which seq records and never forgets, so that the id of a
\* deleted row is not assigned again.
C8_IdsStable ==
    [][/\ \A r1, r2 \in mahasiswa' : r1.id = r2.id => r1 = r2
       /\ \A r \in mahasiswa' :
              \/ r.id \in Ids(mahasiswa)
              \/ r.id > seq /\ \A o \in mahasiswa : r.id > o.id
       /\ seq' >= seq
       /\ \A r \in mahasiswa' : r.id <= seq'
       /\ \A t \in Waiting("update") :
              RunUpdate(t, FALSE) \/ RunUpdate(t, TRUE)
              => Ids(mahasiswa') = Ids(mahasiswa)
       /\ Cardinality(mahasiswa' \ mahasiswa) <= 1]_vars

\* a row was saved after the row with a smaller id had been deleted
C8_Witness ==
    /\ alert = MsgSaved
    /\ seq \in Ids(mahasiswa)
    /\ \E i \in 1..seq : i \notin Ids(mahasiswa)

StrictlyDescending(rowSeq) ==
    \A i, j \in 1..Len(rowSeq) : i < j => rowSeq[i].id > rowSeq[j].id

\* the place of row r in inSeq
IndexIn(inSeq, r) == CHOOSE k \in 1..Len(inSeq) : inSeq[k] = r

\* rowSeq holds rows of inSeq only, in the order inSeq has them
KeepsOrderOf(rowSeq, inSeq) ==
    /\ Range(rowSeq) \subseteq Range(inSeq)
    /\ \A i, j \in 1..Len(rowSeq) :
           i < j => IndexIn(inSeq, rowSeq[i]) < IndexIn(inSeq, rowSeq[j])

\* C9: the loaded list is strictly descending by id, and the filtered list
\* and the page shown hold its rows in the same relative order.
C9_ListOrder ==
    LET filtered == filteredStudents
        page == PageOf(filtered, currentPage, itemsPerPage)
    IN  /\ StrictlyDescending(students)
        /\ StrictlyDescending(filtered)
        /\ StrictlyDescending(page)
        /\ KeepsOrderOf(filtered, students)
        /\ KeepsOrderOf(page, filtered)

\* the second page of a search that keeps six of the seven loaded rows
C9_Witness ==
    /\ Len(students) = 7
    /\ searchQuery = <<"a">>
    /\ Len(filteredStudents) = 6
    /\ currentPage = 2
    /\ Len(paginatedStudents) = 1

\* C10 as stated: after an add of form x succeeds, the SELECT of
\* loadStudents returns a row whose nama, nim, matkul and scores are those
\* of x as typed.
C10_RoundTripAsTyped ==
    [][\A t \in Waiting("insert") :
           (RunInsert(t, FALSE) /\ alert' = MsgSaved)
           => LET listed == SelectAllDesc(mahasiswa')
              IN  \E i \in 1..Len(listed) :
                      /\ listed[i].nama = t.form.nama
                      /\ listed[i].nim = t.form.nim
                      /\ listed[i].matkul = t.form.matkul
                      /\ listed[i].tb1 = parseFloat(t.form.tb1)
                      /\ listed[i].tb2 = parseFloat(t.form.tb2)
                      /\ listed[i].uas = parseFloat(t.form.uas)]_vars

\* C10: after an add of form x succeeds, the SELECT of loadStudents returns
\* a row whose nama, nim and matkul are those of x without leading and
\* trailing whitespace and whose scores are the numbers typed.
C10_RoundTripTrimmed ==
    [][\A t \in Waiting("insert") :
           (RunInsert(t, FALSE) /\ alert' = MsgSaved)
           => LET listed == SelectAllDesc(mahasiswa')
              IN  \E i \in 1..Len(listed) :
                      /\ listed[i].nama = Trim(t.form.nama)
                      /\ listed[i].nim = Trim(t.form.nim)
                      /\ listed[i].matkul = Trim(t.form.matkul)
                      /\ listed[i].tb1 = parseFloat(t.form.tb1)
                      /\ listed[i].tb2 = parseFloat(t.form.tb2)
                      /\ listed[i].uas = parseFloat(t.form.uas)]_vars

\* the row saved last was typed with a name of whitespace only
C10_Witness ==
    /\ alert = MsgSaved
    /\ \E r \in mahasiswa : r.id = seq /\ r.nama = NoText /\ r.nim # NoText

\* C11: whenever no handler waits on the database or on a dialog, the rows
\* the list screen holds are the rows of the table, in particular after an
\* add on the Add screen has been answered.
C11_ListMatchesStore ==
    tasks = EmptyBag => Range(students) = mahasiswa

\* each page of `filtered` at `perPage` rows a page, from page p to the last
RECURSIVE PagesFrom(_, _, _, _)
PagesFrom(filtered, perPage, p, last) ==
    IF p > last THEN <<>>
    ELSE PageOf(filtered, p, perPage) \o PagesFrom(filtered, perPage, p + 1, last)

\* C12: totalPages is max(1, ceil(filteredCount / itemsPerPage)), that is
\* the least number p >= 1 of pages with p * itemsPerPage >= filteredCount,
\* and pages 1..totalPages put one after the other are exactly the
\* filtered list: every record once, in order.
C12_PagesPartitionList ==
    LET filtered == filteredStudents
        pages == totalPages
    IN  /\ pages >= 1
        /\ pages * itemsPerPage >= Len(filtered)
        /\ pages > 1 => (pages - 1) * itemsPerPage < Len(filtered)
        /\ PagesFrom(filtered, itemsPerPage, 1, pages) = filtered

\* three pages of five hold eleven rows, the last page a single one
C12_Witness ==
    /\ Len(filteredStudents) = 11
    /\ itemsPerPage = 5
    /\ totalPages = 3
    /\ currentPage = 3
    /\ Len(paginatedStudents) = 1

PageInRange == 1 <= currentPage /\ currentPage <= totalPages

\* the search text, a filter or the page size is changed by the step
ViewChanged ==
    <<searchQuery, gradeFilter, courseFilter, itemsPerPage>>' #
        <<searchQuery, gradeFilter, courseFilter, itemsPerPage>>

\* C13 as stated: 1 <= currentPage <= totalPages in every state, and a
\* step (filter change or deletion) that makes totalPages smaller than
\* currentPage makes currentPage equal to the new totalPages.
C13_PageFollowsTotal ==
    [][/\ PageInRange
       /\ PageInRange'
       /\ totalPages' < currentPage => currentPage' = totalPages']_vars

\* C13: 1 <= currentPage <= totalPages in every state; when the reload
\* after a deletion makes totalPages smaller than currentPage, currentPage
\* becomes the new totalPages; when a change of a filter or of the page size
\* does, currentPage becomes 1.
C13_PageClamped ==
    [][/\ PageInRange
       /\ PageInRange'
       /\ totalPages' < currentPage =>
              IF ViewChanged THEN currentPage' = 1
              ELSE currentPage' = totalPages']_vars

\* the only row of page 3 of 3 has been deleted and the reload that will
\* leave two pages is in flight
C13_Witness ==
    /\ Waiting("load") # {}
    /\ Cardinality(mahasiswa) = 10
    /\ Len(students) = 11
    /\ courseFilter = AllCourses
    /\ itemsPerPage = 5
    /\ currentPage = 3

\* C14: every step that changes the search text, the grade filter, the
\* course filter or the page size leaves currentPage at 1, the close icon
\* of the search box and the Reset control included.
C14_ViewChangeResetsPage ==
    [][ViewChanged => currentPage' = 1]_vars

\* the search predicate: the trimmed, lower-cased search text is empty or
\* occurs in the lower-cased name, student number or course
SearchHolds(s) ==
    LET q == ToLowerCase(Trim(searchQuery))
    IN  \/ q = NoText
        \/ \E field \in {s.nama, s.nim, s.matkul} : Includes(ToLowerCase(field), q)

\* the grade predicate: no grade is selected or the record's grade is the
\* selected one
GradeHolds(s) ==
    \/ gradeFilter = AllGrades
    \/ scoreToGrade(calculateFinalScore(s.tb1, s.tb2, s.uas)) = gradeFilter

\* the course predicate: no course is selected or the record's course is
\* the selected one
CourseHolds(s) == courseFilter = AllCourses \/ s.matkul = courseFilter

\* C15: the filtered list holds, in the order of the loaded list, exactly
\* the loaded records that satisfy the search, grade and course predicates,
\* and applying the three predicates one after the other in either order
\* gives the same list.
C15_FilterIsConjunction ==
    LET filtered == filteredStudents
        All(s) == SearchHolds(s) /\ GradeHolds(s) /\ CourseHolds(s)
    IN  /\ filtered = SelectSeq(students, All)
        /\ filtered =
               SelectSeq(SelectSeq(SelectSeq(students, SearchHolds), GradeHolds),
                         CourseHolds)
        /\ filtered =
               SelectSeq(SelectSeq(SelectSeq(students, CourseHolds), GradeHolds),
                         SearchHolds)

\* the three filters are set and each alone keeps more rows than all three
C15_Witness ==
    /\ searchQuery = <<"A", Space>>
    /\ gradeFilter = "B+"
    /\ courseFilter = <<"m">>
    /\ Len(filteredStudents) = 1
    /\ Len(SelectSeq(students, SearchHolds)) = 6
    /\ Len(SelectSeq(students, CourseHolds)) > 1

\* C16: the values of the course menu are the 'all' entry followed by the
\* courses of all loaded records, each once, in ascending order, whatever
\* the filters keep.
C16_CourseOptions ==
    LET opts == courseOptionsWithAll
        courses == {students[i].matkul : i \in 1..Len(students)}
    IN  /\ opts[1] = AllCourses
        /\ Len(opts) = Cardinality(courses) + 1
        /\ {opts[i] : i \in 2..Len(opts)} = courses
        /\ \A i \in 2..(Len(opts) - 1) : StrLess(opts[i], opts[i + 1])

\* the only student of course b has been deleted and the list reloaded:
\* the menu offers m and n while the filter keeps the students of n only
C16_Witness ==
    /\ Len(students) = 10
    /\ courseOptionsWithAll = <<AllCourses, <<"m">>, <<"n">>>>
    /\ courseFilter = <<"n">>
    /\ Len(filteredStudents) = 4

\* the score is at least n: compared in hundredths, the rounding error
\* deciding between equal hundredths
ScoreAtLeast(x, n) ==
    LET hundredths == 10 * x.t + x.c
    IN  hundredths > 100 * n \/ (hundredths = 100 * n /\ x.d >= 0)

\* C17: scoreToGrade gives every score exactly one of the six bands:
\* A from 80, B+ from 75 to below 80, B from 69 to below 75, C+ from 65 to
\* below 69, C from 56 to below 65, D below 56; a threshold itself is in
\* the higher band.
C17_GradeBands ==
    finalGrade # NoGrade =>
        LET x == finalScore
        IN  /\ finalGrade \in {"A", "B+", "B", "C+", "C", "D"}
            /\ finalGrade = "A" <=> ScoreAtLeast(x, 80)
            /\ finalGrade = "B+" <=> ScoreAtLeast(x, 75) /\ ~ScoreAtLeast(x, 80)
            /\ finalGrade = "B" <=> ScoreAtLeast(x, 69) /\ ~ScoreAtLeast(x, 75)
            /\ finalGrade = "C+" <=> ScoreAtLeast(x, 65) /\ ~ScoreAtLeast(x, 69)
            /\ finalGrade = "C" <=> ScoreAtLeast(x, 56) /\ ~ScoreAtLeast(x, 65)
            /\ finalGrade = "D" <=> ~ScoreAtLeast(x, 56)

\* three scores of 75 give exactly 75, the threshold of B+
C17_Witness ==
    /\ scoreFields = <<(<<"7", "5">>), (<<"7", "5">>), (<<"7", "5">>)>>
    /\ finalScore = Dbl(750, 0)
    /\ finalGrade = "B+"

\* C18 as stated: scoreToGrade maps 79.99 to B+, 80.00 to A and 74.99 to
\* C+.
C18_BoundaryScoresAsStated ==
    (scoreFields = <<>> /\ finalGrade # NoGrade) =>
        /\ finalScore = DblLiteral(7999) => finalGrade = "B+"
        /\ finalScore = DblLiteral(8000) => finalGrade = "A"
        /\ finalScore = DblLiteral(7499) => finalGrade = "C+"

\* C18: scoreToGrade maps 79.99 to B+, 80.00 to A and 74.99 to B.
C18_BoundaryScores ==
    (scoreFields = <<>> /\ finalGrade # NoGrade) =>
        /\ finalScore = DblLiteral(7999) => finalGrade = "B+"
        /\ finalScore = DblLiteral(8000) => finalGrade = "A"
        /\ finalScore = DblLiteral(7499) => finalGrade = "B"

\* the score 74.99 has been graded
C18_Witness ==
    /\ scoreFields = <<>>
    /\ finalScore = DblLiteral(7499)
    /\ finalGrade = "B"

\* the numbers the preview is computed from
ScoreArgs(fields) == [i \in 1..3 |-> NumberOrZero(fields[i])]

\* x <= y for two doubles
DblLeq(x, y) == x.t < y.t \/ (x.t = y.t /\ x.d <= y.d)

\* C19: for whole scores s1, s2, e in 0..100 calculateFinalScore is the
\* number (3*s1 + 3*s2 + 4*e)/10, lies in [0, 100], does not decrease when
\* an argument grows, is 100 at (100, 100, 100) and 0 at (0, 0, 0).
C19_FinalScoreIsWeightedMean ==
    [][Len(scoreFields') = 3 =>
          LET old == ScoreArgs(scoreFields)
              new == ScoreArgs(scoreFields')
          IN  /\ finalScore' = RoundDbl(3 * new[1] + 3 * new[2] + 4 * new[3], 0)
              /\ DblGeq(finalScore', 0) /\ ~DblGt(finalScore', 100)
              /\ (\A i \in 1..3 : old[i] <= new[i]) => DblLeq(finalScore, finalScore')
              /\ new = <<100, 100, 100>> => finalScore' = Dbl(1000, 0)
              /\ new = <<0, 0, 0>> => finalScore' = Dbl(0, 0)]_vars

\* the theme start-up should show: the persisted one, or the device colour
\* scheme ('light' when the device gives none)
ExpectedTheme ==
    IF \E r \in settings : r.theme \in {"light", "dark"}
    THEN (CHOOSE r \in settings : r.theme \in {"light", "dark"}).theme
    ELSE IF systemColor # NoScheme THEN systemColor ELSE "light"

\* C20: when the mount effect's SELECT has been answered and the theme
\* button was never pressed, the effective theme is the persisted theme if
\* table settings holds 'light' or 'dark' and the device colour scheme
\* otherwise.
C20_ThemeAfterStartup ==
    [][(started = 0 /\ \E t \in BagToSet(themeTasks) : RunReadTheme(t, FALSE))
          => finalTheme' = ExpectedTheme']_vars

\* table settings holds at most one row, with id 1 and theme 'light' or
\* 'dark'
OneThemeRow ==
    /\ Cardinality(settings) <= 1
    /\ \A r \in settings : r.id = 1 /\ r.theme \in {"light", "dark"}

\* C21: after any sequence of start-ups and toggles table settings holds at
\* most one row, that row has id 1 and theme 'light' or 'dark', and an
\* answered write of toggleTheme leaves exactly the row with the new theme.
C21_SingleSettingsRow ==
    [][/\ OneThemeRow
       /\ OneThemeRow'
       /\ \A t \in BagToSet(themeTasks) :
              RunWriteTheme(t, FALSE) => settings' = {SettingsRow(t.theme)}]_vars

\* the theme button was pressed twice and both writes were answered: the
\* second write has replaced 'dark' with 'light'
C21_Witness ==
    /\ started = 2
    /\ themeTasks = EmptyBag
    /\ theme = "light"
    /\ settings = {SettingsRow("light")}

\* C22: every call of toggleTheme flips the theme, and when the write of
\* the only toggle there has been is answered and nothing else is in
\* flight, the theme in memory is the persisted one, however the call
\* interleaves with the SELECT of the mount effect.
C22_ToggleFlipsAndPersists ==
    [][/\ toggleTheme => theme' = OtherTheme(theme)
       /\ \A t \in BagToSet(themeTasks) :
              (started = 1 /\ RunWriteTheme(t, FALSE) /\ themeTasks' = EmptyBag)
                  => settings' = {SettingsRow(theme')}]_vars

\* the handlers in flight whose next statement is an INSERT, an UPDATE or a
\* DELETE
WritesInFlight ==
    {t \in BagToSet(tasks) : t.kind \in {"insert", "update", "delete"}}

\* C23: at no time are two writes to the store in flight: once an add-save,
\* an edit-save or a confirmed delete is under way, no further one can be
\* started, a second press of the same Save button included.
C23_OneWriteInFlight ==
    /\ Cardinality(WritesInFlight) <= 1
    /\ \A t \in WritesInFlight : CopiesIn(t, tasks) <= 1

\* C24: when the database call of an add, an edit-save or a delete throws,
\* the operation is aborted (its handler is over, nothing is written and
\* nothing is issued again) and the user is shown an error notice.
C24_ThrownErrorIsReported ==
    [][/\ \A f \in ValidAddForms : AddSave(f, TRUE) => alert' # NoMsg
       /\ \A t \in BagToSet(tasks) :
              (RunInsert(t, TRUE) \/ RunUpdate(t, TRUE) \/ RunDelete(t, TRUE))
                  => /\ alert' # NoMsg
                     /\ tasks' = tasks (-) One(t)
                     /\ UNCHANGED dbVars]_vars

\* the step is the end of an operation that failed: an add or edit-save
\* stopped by validation, by the NIM check or by an error of its SELECT; an
\* INSERT or UPDATE that threw or that the unique index rejected; a DELETE
\* that threw or a deletion cancelled in the dialog; a theme write that threw
FailedOperation ==
    \/ \E f \in AddForms, throws \in BOOLEAN : AddSave(f, throws) /\ tasks' = tasks
    \/ \E f \in EditForms(editingStudent), throws \in BOOLEAN :
           EditSave(f, throws) /\ tasks' = tasks
    \/ \E t \in BagToSet(tasks) :
           \/ RunInsert(t, TRUE)
           \/ RunInsert(t, FALSE) /\ alert' = MsgSaveFailed
           \/ RunUpdate(t, TRUE)
           \/ RunUpdate(t, FALSE) /\ tasks' = tasks (-) One(t)
           \/ RunDelete(t, TRUE)
           \/ CancelDelete(t)
    \/ \E t \in BagToSet(themeTasks) : RunWriteTheme(t, TRUE)

\* C25: a step that ends a failed operation leaves table mahasiswa and
\* table settings as they were; put the other way round, no step that
\* changes one of the two tables ends a failed operation.
C25_FailureLeavesDataUnchanged ==
    [][(mahasiswa' # mahasiswa \/ settings' # settings) => ~FailedOperation]_vars

\* one student is stored, a second add was answered with the error notice
\* and a toggle's write has thrown: the theme in memory is 'dark', table
\* settings is still empty
C25_Witness ==
    /\ Cardinality(mahasiswa) = 1
    /\ alert = MsgSaveFailed
    /\ tasks = EmptyBag
    /\ themeTasks = EmptyBag
    /\ theme = "dark"
    /\ settings = {}

\* the row an add of the three score fields stores
StoredScores(fields) ==
    InsertParams(Form(<<"a">>, <<"1">>, <<"m">>, fields[1], fields[2], fields[3]))

\* C26: for every record that can be saved with the scores typed, the final
\* score and grade of the Add screen's preview are the final score and
\* grade the list screen computes for the stored record, shows on its card
\* and filters by.
C26_PreviewMatchesList ==
    (Len(scoreFields) = 3 /\ \A i \in 1..3 : scoreFields[i] # NoText) =>
        LET row == StoredScores(scoreFields)
            listScore == calculateFinalScore(row.tb1, row.tb2, row.uas)
        IN  /\ finalScore = listScore
            /\ finalGrade = scoreToGrade(listScore)
            /\ MatchesFilters(row, NoText, finalGrade, AllCourses)

\* the scores 53, 99 and 26 are typed: preview and list both show
\* 55.99999999999999 and D
C26_Witness ==
    /\ scoreFields = <<(<<"5", "3">>), (<<"9", "9">>), (<<"2", "6">>)>>
    /\ finalScore = Dbl(560, 0 - 1280)
    /\ finalGrade = "D"
    /\ scoreToGrade(calculateFinalScore(53, 99, 26)) = "D"

\* C27: the grade filter never is the literal 'All Grades' the condition of
\* the Reset control compares it with, so the condition holds in every
\* state and the control is rendered, also while both filters are at the
\* 'all' entries 'Semua Grade' and 'Semua Program Studi'.
C27_ResetAlwaysShown ==
    /\ gradeFilter # AllGradesLiteral
    /\ gradeFilter # AllGradesLiteral \/ courseFilter # AllCoursesLiteral
    /\ AllGrades # AllGradesLiteral /\ AllCourses # AllCoursesLiteral

\* Reset was pressed on page 2 of the loaded list: both filters are at
\* their 'all' entries and the condition of the control still holds
C27_Witness ==
    /\ Len(students) = 7
    /\ gradeFilter = AllGrades
    /\ courseFilter = AllCourses
    /\ currentPage = 2
    /\ gradeFilter # AllGradesLiteral \/ courseFilter # AllCoursesLiteral

\* C28: while the list screen waits on no database call, the selected
\* course filter is the 'all' entry or one of the course options, also
\* after the last record of the selected course has been deleted.
C28_CourseFilterIsAnOption ==
    tasks = EmptyBag => courseFilter \in Range(courseOptionsWithAll)

\* C29: after any adds and edits no two rows of the table have student
\* numbers that are equal once leading and trailing whitespace is removed.
C29_UniqueTrimmedNim ==
    \A r1, r2 \in mahasiswa : Trim(r1.nim) = Trim(r2.nim) => r1 = r2

====
